---------------------------- MODULE Spec2Model ----------------------------
(***************************************************************************)
(* A model of tiff2jpg.py: the TIFF -> JPEG conversion service.            *)
(*                                                                         *)
(* The state is the two staging folders (uploads/, converted/), and, for   *)
(* each worker thread of the server, the request it is handling, the line  *)
(* of the handler it has reached, the response dict it is building and the *)
(* response it returned.  Every I/O call of a handler (file.save, the      *)
(* converter, os.path.exists, os.remove, os.path.getsize, send_file) is    *)
(* one step, so that requests interleave between calls and an I/O error    *)
(* can be raised by each call.                                             *)
(***************************************************************************)
EXTENDS Integers, Sequences, FiniteSets, TLC

(***************************************************************************)
(* Bounds of the model.                                                    *)
(***************************************************************************)
\* Requests the server receives in one behaviour.
MaxReqs == 3
\* Files of a batch whose files are drawn freely from FileKinds.
MaxFiles == 2
\* I/O errors the environment raises in one behaviour (SpecFaults).
MaxFaults == 2
\* Image sides are taken around the multiples 0..MaxMult of the size limit,
\* at most MaxDelta pixels away from them.
MaxMult == 3
\* Filenames given to allowed_file have at most MaxNameLen characters.
MaxNameLen == 5
\* Stream lengths are at most MaxStreamLen bytes, or that close to the
\* input limit.
MaxStreamLen == 3
MaxDelta == 2

(***************************************************************************)
(* Program constants (tiff2jpg.py:21-23, 146).                             *)
(***************************************************************************)
MiB == 1024 * 1024
MAX_INPUT_FILE_SIZE == 1 * 1024 * 1024 * 1024
MAX_OUTPUT_FILE_SIZE == 10 * 1024 * 1024
MAX_BATCH_FILES == 150
ALLOWED_EXTENSIONS == { <<"t", "i", "f">>, <<"t", "i", "f", "f">> }

(***************************************************************************)
(* Filenames are sequences of characters.                                  *)
(***************************************************************************)
Upper == <<"A", "F", "I", "T">>
Lower == <<"a", "f", "i", "t">>

\* str.lower() of one character.
LowerChar(c) ==
  IF \E k \in 1..Len(Upper) : Upper[k] = c
  THEN Lower[CHOOSE k \in 1..Len(Upper) : Upper[k] = c]
  ELSE c

\* str.lower()
lower(s) == [k \in 1..Len(s) |-> LowerChar(s[k])]

HasDot(s) == \E k \in 1..Len(s) : s[k] = "."

\* Index of the last '.' of s (s has one).
LastDot(s) == CHOOSE k \in 1..Len(s) : s[k] = "." /\ \A j \in (k+1)..Len(s) : s[j] # "."

\* s.rsplit('.', 1)[1] and s.rsplit('.', 1)[0]; without a '.', rsplit gives [s].
Suffix(s) == SubSeq(s, LastDot(s) + 1, Len(s))
Stem(s) == IF HasDot(s) THEN SubSeq(s, 1, LastDot(s) - 1) ELSE s

\* A variant of allowed_file that compares the suffix as it is written.
allowed_file_CaseSensitive(filename) ==
  HasDot(filename) /\ Suffix(filename) \in ALLOWED_EXTENSIONS

\* allowed_file(filename)
allowed_file(filename) ==
  HasDot(filename) /\ lower(Suffix(filename)) \in ALLOWED_EXTENSIONS

(***************************************************************************)
(* werkzeug.utils.secure_filename, on the characters the model uses: path  *)
(* separators become blanks, blank-separated words are joined with "_",    *)
(* characters outside [A-Za-z0-9_.-] are dropped, and leading and trailing *)
(* "." and "_" are stripped.                                               *)
(***************************************************************************)
SafeChars == {"a", "b", "f", "g", "i", "n", "p", "t", "A", "F", "I", "T", ".", "_", "-"}

SepToBlank(s) == [k \in 1..Len(s) |-> IF s[k] = "/" THEN " " ELSE s[k]]

\* s with its leading blanks dropped.
RECURSIVE DropBlanks(_)
DropBlanks(s) ==
  IF s # <<>> /\ Head(s) = " " THEN DropBlanks(Tail(s)) ELSE s

\* "_".join(s.split()) of a string without leading blanks.
RECURSIVE JoinRest(_)
JoinRest(s) ==
  IF s = <<>> THEN <<>>
  ELSE IF Head(s) = " "
       THEN LET r == DropBlanks(s)
            IN  IF r = <<>> THEN <<>> ELSE <<"_">> \o JoinRest(r)
       ELSE <<Head(s)>> \o JoinRest(Tail(s))

\* "_".join(s.split())
JoinWords(s) == JoinRest(DropBlanks(s))

KeepSafe(s) == SelectSeq(s, LAMBDA c : c \in SafeChars)

RECURSIVE StripLeft(_)
StripLeft(s) ==
  IF s # <<>> /\ Head(s) \in {".", "_"} THEN StripLeft(Tail(s)) ELSE s

RECURSIVE StripRight(_)
StripRight(s) ==
  IF s # <<>> /\ s[Len(s)] \in {".", "_"}
  THEN StripRight(SubSeq(s, 1, Len(s) - 1)) ELSE s

secure_filename(name) == StripRight(StripLeft(KeepSafe(JoinWords(SepToBlank(name)))))

\* input_path and output_path of a file (tiff2jpg.py:93-96, 180-183): the
\* folders are separate maps, so a path is the name inside its folder.
InputPath(filename) == secure_filename(filename)
OutputFilename(filename) == Stem(secure_filename(filename)) \o <<".", "j", "p", "g">>
OutputPath(filename) == OutputFilename(filename)
(***************************************************************************)
(* Upload candidates.  A candidate is the uploaded part as the handlers    *)
(* see it: its filename, the length of its stream, whether the image       *)
(* decoder accepts its bytes, and the size of the JPEG the encoder makes   *)
(* of it.                                                                  *)
(***************************************************************************)
TifSmall == [filename |-> <<"a", ".", "t", "i", "f">>, size |-> 4096,
             decodable |-> TRUE, jpeg_size |-> 2048]
TiffOver == [filename |-> <<"a", ".", "t", "i", "f", "f">>, size |-> 4096,
             decodable |-> TRUE, jpeg_size |-> MAX_OUTPUT_FILE_SIZE + 1]
TifExact == [filename |-> <<"A", ".", "T", "I", "F">>, size |-> MAX_INPUT_FILE_SIZE,
             decodable |-> TRUE, jpeg_size |-> MAX_OUTPUT_FILE_SIZE]
TifCorrupt == [filename |-> <<"/", "a", ".", "t", "i", "f">>, size |-> 4096,
               decodable |-> FALSE, jpeg_size |-> 0]
TifTooBig == [filename |-> <<"b", ".", "t", "i", "f">>, size |-> MAX_INPUT_FILE_SIZE + 1,
              decodable |-> TRUE, jpeg_size |-> 2048]
PngFile == [filename |-> <<"a", ".", "p", "n", "g">>, size |-> 4096,
            decodable |-> TRUE, jpeg_size |-> 2048]
Unnamed == [filename |-> <<>>, size |-> 0, decodable |-> FALSE, jpeg_size |-> 0]
\* A part that fails the extension check and the size check at once.
PngTooBig == [filename |-> <<"c", ".", "p", "n", "g">>, size |-> MAX_INPUT_FILE_SIZE + 1,
              decodable |-> TRUE, jpeg_size |-> 2048]

FileKinds == {TifSmall, TiffOver, TifExact, TifCorrupt, TifTooBig, PngFile, Unnamed}

\* The lists of at most n candidates.
RECURSIVE FileLists(_)
FileLists(n) ==
  IF n = 0 THEN { <<>> }
  ELSE LET shorter == FileLists(n - 1)
       IN  shorter \cup { Append(l, k) : l \in {x \in shorter : Len(x) = n - 1}, k \in FileKinds }

\* What a POST /convert carries in its field 'file': nothing, or one part.
ConvertUploads == FileLists(1) \cup { <<PngTooBig>> }

\* What a POST /batch-convert carries in its field 'files[]': short lists of
\* any candidates, and lists at and beyond the batch limit.
BatchUploads ==
  FileLists(MaxFiles)
    \cup { [k \in 1..MAX_BATCH_FILES |-> PngFile],
           [k \in 1..MAX_BATCH_FILES |-> IF k = MAX_BATCH_FILES THEN TifSmall ELSE Unnamed],
           [k \in 1..(MAX_BATCH_FILES + 1) |-> TifSmall] }

(***************************************************************************)
(* Files on disk.  An upload keeps the bytes of the request that wrote it  *)
(* (src: request number and position in the request); a converted file     *)
(* keeps the upload it was made from and its size in bytes.               *)
(***************************************************************************)
NoFile == [exists |-> FALSE]

Workers == {1, 2}

UploadPaths == { InputPath(k.filename) : k \in FileKinds }
OutputPaths == { OutputPath(k.filename) : k \in FileKinds }

VARIABLES
  uploads,      \* UPLOAD_FOLDER: path -> file
  converted,    \* OUTPUT_FOLDER: path -> file
  pc,           \* worker -> the line of the handler it is at
  req,          \* worker -> the request it handles
  uid,          \* worker -> the number of that request
  idx,          \* worker -> position in req.files of the file being handled
  output_size,  \* worker -> the handler's local output_size
  succ,         \* worker -> response['successful_conversions']
  fail,         \* worker -> response['failed_conversions']
  response,     \* worker -> what the handler returned
  nreq,         \* requests received so far
  faults,       \* I/O errors raised so far
  call          \* one call of a helper function, seen from the inside

handlervars == <<uploads, converted, pc, req, uid, idx, output_size, succ, fail,
                 response, nreq, faults>>

vars == <<handlervars, call>>

fsvars == <<uploads, converted>>
reqvars == <<req, uid, nreq>>
batchvars == <<succ, fail>>

NoRequest == [kind |-> "none", files |-> <<>>]
NoResponse == [status |-> 0]
\* The handler did not return: an exception raised at this line left it.
Unhandled(line) == [status |-> -1, line |-> line]
\* No helper is being looked into.
NoCall == [fn |-> "none"]

Init ==
  /\ uploads = [p \in UploadPaths |-> NoFile]
  /\ converted = [p \in OutputPaths |-> NoFile]
  /\ pc = [w \in Workers |-> "idle"]
  /\ req = [w \in Workers |-> NoRequest]
  /\ uid = [w \in Workers |-> 0]
  /\ idx = [w \in Workers |-> 0]
  /\ output_size = [w \in Workers |-> 0]
  /\ succ = [w \in Workers |-> <<>>]
  /\ fail = [w \in Workers |-> <<>>]
  /\ response = [w \in Workers |-> NoResponse]
  /\ nreq = 0
  /\ faults = 0
  /\ call = NoCall

\* The file the worker is handling, and its paths.
File(w) == req[w].files[idx[w]]
input_path(w) == InputPath(File(w).filename)
output_path(w) == OutputPath(File(w).filename)

\* file.save(input_path): the bytes of this request's upload.
Staged(w) ==
  [exists |-> TRUE, src |-> <<uid[w], idx[w]>>,
   decodable |-> File(w).decodable, jpeg_size |-> File(w).jpeg_size]

\* What an interrupted file.save leaves: a truncated copy.
Truncated(w) ==
  [exists |-> TRUE, src |-> <<uid[w], idx[w]>>, decodable |-> FALSE, jpeg_size |-> 0]

\* check_file_size(file)
check_file_size(file) == file.size <= MAX_INPUT_FILE_SIZE

\* A variant of ConvertOk that reports success for any file it finds.
ConvertOk_AnyFile(inp) == inp.exists

\* convert_tif_to_jpg returns True: Image.open accepts the file at input_path.
ConvertOk(inp) == inp.exists /\ inp.decodable

\* img.save(output_path, 'JPEG', ...): the JPEG of the file read.
Jpeg(inp) == [exists |-> TRUE, src |-> inp.src, size |-> inp.jpeg_size]

\* What a failed img.save may leave at output_path.
PartialJpeg(inp) == [exists |-> TRUE, src |-> inp.src, size |-> 0]

\* f"{n/(1024*1024):.1f}": n bytes in tenths of a MB, rounded half to even.
RoundDiv(n, d) ==
  LET q == n \div d
      r == n % d
  IN  IF 2 * r > d \/ (2 * r = d /\ q % 2 = 1) THEN q + 1 ELSE q

Fmt1(n) == RoundDiv(n * 10, MiB)

\* round(n / (1024 * 1024), 2): n bytes in hundredths of a MB.
Round2(n) == RoundDiv(n * 100, MiB)

\* An error body {'error': ...}: the text, and the number the text shows
\* (tenths of a MB; -1 when it shows none).
Error(msg, shown) == [msg |-> msg, shown |-> shown]

\* return body, status
Return(w, r) ==
  /\ response' = [response EXCEPT ![w] = r]
  /\ pc' = [pc EXCEPT ![w] = "idle"]

Goto(w, l) ==
  /\ pc' = [pc EXCEPT ![w] = l]
  /\ UNCHANGED response

\* An exception raised at this line leaves the handler.
Escape(w, line) == Return(w, Unhandled(line))

\* A variant of OutputTooLarge that also rejects a size at the limit.
OutputTooLarge_AtLimit(size) == size >= MAX_OUTPUT_FILE_SIZE

\* output_size > MAX_OUTPUT_FILE_SIZE (line 111; line 192 tests the opposite).
OutputTooLarge(size) == size > MAX_OUTPUT_FILE_SIZE

\* A variant of TooManyFiles that also rejects a batch at the limit.
TooManyFiles_AtLimit(n) == n >= MAX_BATCH_FILES

\* len(files) > 150 (line 146).
TooManyFiles(n) == n > MAX_BATCH_FILES

\* A variant of BatchStatus that answers 200 whatever the lists hold.
BatchStatus_Always200(successes) == 200

\* 200 if response['successful_conversions'] else 400 (line 225).
BatchStatus(successes) == IF successes # <<>> THEN 200 ELSE 400

(***************************************************************************)
(* POST /convert (convert_image).                                          *)
(***************************************************************************)
\* The server receives its next request, the limit-th at most.
ReceiveConvert(w, limit) ==
  /\ pc[w] = "idle"
  /\ UNCHANGED call
  /\ nreq < limit
  /\ \E fl \in ConvertUploads :
       req' = [req EXCEPT ![w] = [kind |-> "convert", files |-> fl]]
  /\ nreq' = nreq + 1
  /\ uid' = [uid EXCEPT ![w] = nreq + 1]
  /\ idx' = [idx EXCEPT ![w] = 1]
  /\ output_size' = [output_size EXCEPT ![w] = 0]
  /\ succ' = [succ EXCEPT ![w] = <<>>]
  /\ fail' = [fail EXCEPT ![w] = <<>>]
  /\ response' = [response EXCEPT ![w] = NoResponse]
  /\ pc' = [pc EXCEPT ![w] = "c_validate"]
  /\ UNCHANGED <<fsvars, faults>>

\* A variant of ConvertValidate that looks at the extension before the
\* filename.
ConvertValidate_ExtensionFirst(w) ==
  /\ pc[w] = "c_validate"
  /\ UNCHANGED call
  /\ IF req[w].files = <<>>
     THEN Return(w, [status |-> 400, error |-> Error("No file provided", -1)])
     ELSE IF ~allowed_file(File(w).filename)
     THEN Return(w, [status |-> 400,
                     error |-> Error("Invalid file type. Only TIF/TIFF files are allowed", -1)])
     ELSE IF File(w).filename = <<>>
     THEN Return(w, [status |-> 400, error |-> Error("No file selected", -1)])
     ELSE Goto(w, "c_size")
  /\ UNCHANGED <<fsvars, reqvars, idx, output_size, batchvars, faults>>

\* Lines 70-84: the field, the filename, the extension.
ConvertValidate(w) ==
  /\ pc[w] = "c_validate"
  /\ UNCHANGED call
  /\ IF req[w].files = <<>>
     THEN Return(w, [status |-> 400, error |-> Error("No file provided", -1)])
     ELSE IF File(w).filename = <<>>
     THEN Return(w, [status |-> 400, error |-> Error("No file selected", -1)])
     ELSE IF ~allowed_file(File(w).filename)
     THEN Return(w, [status |-> 400,
                     error |-> Error("Invalid file type. Only TIF/TIFF files are allowed", -1)])
     ELSE Goto(w, "c_size")
  /\ UNCHANGED <<fsvars, reqvars, idx, output_size, batchvars, faults>>

\* Lines 86-90.
ConvertCheckSize(w) ==
  /\ pc[w] = "c_size"
  /\ UNCHANGED call
  /\ IF ~check_file_size(File(w))
     THEN Return(w, [status |-> 400,
                     error |-> Error("File size exceeds maximum limit of",
                                     (MAX_INPUT_FILE_SIZE \div MiB) * 10)])
     ELSE Goto(w, "c_save")
  /\ UNCHANGED <<fsvars, reqvars, idx, output_size, batchvars, faults>>

\* Lines 93-102.
ConvertSave(w) ==
  /\ pc[w] = "c_save"
  /\ UNCHANGED call
  /\ uploads' = [uploads EXCEPT ![input_path(w)] = Staged(w)]
  /\ Goto(w, "c_convert")
  /\ UNCHANGED <<converted, reqvars, idx, output_size, batchvars, faults>>

\* A variant of ConvertRun that goes on to measure the output while the
\* input is still there.
ConvertRun_MeasureFirst(w) ==
  /\ pc[w] = "c_convert"
  /\ UNCHANGED call
  /\ IF ConvertOk(uploads[input_path(w)])
     THEN /\ converted' = [converted EXCEPT ![output_path(w)] = Jpeg(uploads[input_path(w)])]
          /\ Goto(w, "c_getsize")
     ELSE /\ UNCHANGED converted
          /\ Goto(w, "c_fail_exists")
  /\ UNCHANGED <<uploads, reqvars, idx, output_size, batchvars, faults>>

\* Line 105: convert_tif_to_jpg(input_path, output_path).
ConvertRun(w) ==
  /\ pc[w] = "c_convert"
  /\ UNCHANGED call
  /\ IF ConvertOk(uploads[input_path(w)])
     THEN /\ converted' = [converted EXCEPT ![output_path(w)] = Jpeg(uploads[input_path(w)])]
          /\ Goto(w, "c_rm_in")
     ELSE /\ UNCHANGED converted
          /\ Goto(w, "c_fail_exists")
  /\ UNCHANGED <<uploads, reqvars, idx, output_size, batchvars, faults>>

\* Line 106: os.remove(input_path); FileNotFoundError when it is gone.
ConvertRemoveInput(w) ==
  /\ pc[w] = "c_rm_in"
  /\ UNCHANGED call
  /\ IF uploads[input_path(w)].exists
     THEN /\ uploads' = [uploads EXCEPT ![input_path(w)] = NoFile]
          /\ Goto(w, "c_getsize")
     ELSE /\ UNCHANGED uploads
          /\ Goto(w, "c_exc_exists")
  /\ UNCHANGED <<converted, reqvars, idx, output_size, batchvars, faults>>

\* Lines 110-111: output_size = os.path.getsize(output_path) and the test.
ConvertGetSize(w) ==
  /\ pc[w] = "c_getsize"
  /\ UNCHANGED call
  /\ IF converted[output_path(w)].exists
     THEN /\ output_size' = [output_size EXCEPT ![w] = converted[output_path(w)].size]
          /\ Goto(w, IF OutputTooLarge(converted[output_path(w)].size)
                     THEN "c_rm_out" ELSE "c_send")
     ELSE /\ UNCHANGED output_size
          /\ Goto(w, "c_exc_exists")
  /\ UNCHANGED <<fsvars, reqvars, idx, batchvars, faults>>

\* Lines 112-116.
ConvertRemoveOutput(w) ==
  /\ pc[w] = "c_rm_out"
  /\ UNCHANGED call
  /\ IF converted[output_path(w)].exists
     THEN /\ converted' = [converted EXCEPT ![output_path(w)] = NoFile]
          /\ Return(w, [status |-> 400,
                        error |-> Error("Output file size exceeds limit of",
                                        Fmt1(output_size[w]))])
     ELSE /\ UNCHANGED converted
          /\ Goto(w, "c_exc_exists")
  /\ UNCHANGED <<uploads, reqvars, idx, output_size, batchvars, faults>>

\* Lines 118-120: send_file(output_path, ...).
ConvertSend(w) ==
  /\ pc[w] = "c_send"
  /\ UNCHANGED call
  /\ IF converted[output_path(w)].exists
     THEN Return(w, [status |-> 200, body |-> converted[output_path(w)],
                     download_name |-> OutputFilename(File(w).filename)])
     ELSE Goto(w, "c_exc_exists")
  /\ UNCHANGED <<fsvars, reqvars, idx, output_size, batchvars, faults>>

\* Line 122, and line 125 when the file is gone.
ConvertFailExists(w) ==
  /\ pc[w] = "c_fail_exists"
  /\ UNCHANGED call
  /\ IF uploads[input_path(w)].exists
     THEN Goto(w, "c_fail_rm")
     ELSE Return(w, [status |-> 500, error |-> Error("Conversion failed", -1)])
  /\ UNCHANGED <<fsvars, reqvars, idx, output_size, batchvars, faults>>

\* Lines 123-125.
ConvertFailRemove(w) ==
  /\ pc[w] = "c_fail_rm"
  /\ UNCHANGED call
  /\ IF uploads[input_path(w)].exists
     THEN /\ uploads' = [uploads EXCEPT ![input_path(w)] = NoFile]
          /\ Return(w, [status |-> 500, error |-> Error("Conversion failed", -1)])
     ELSE /\ UNCHANGED uploads
          /\ Goto(w, "c_exc_exists")
  /\ UNCHANGED <<converted, reqvars, idx, output_size, batchvars, faults>>

\* Lines 127-129, and line 131 when the file is gone.
ConvertExcExists(w) ==
  /\ pc[w] = "c_exc_exists"
  /\ UNCHANGED call
  /\ IF uploads[input_path(w)].exists
     THEN Goto(w, "c_exc_rm")
     ELSE Return(w, [status |-> 500, error |-> Error("Internal server error", -1)])
  /\ UNCHANGED <<fsvars, reqvars, idx, output_size, batchvars, faults>>

\* Lines 130-131: os.remove inside the except block; what it raises leaves
\* the handler.
ConvertExcRemove(w) ==
  /\ pc[w] = "c_exc_rm"
  /\ UNCHANGED call
  /\ IF uploads[input_path(w)].exists
     THEN /\ uploads' = [uploads EXCEPT ![input_path(w)] = NoFile]
          /\ Return(w, [status |-> 500, error |-> Error("Internal server error", -1)])
     ELSE /\ UNCHANGED uploads
          /\ Escape(w, 130)
  /\ UNCHANGED <<converted, reqvars, idx, output_size, batchvars, faults>>

(***************************************************************************)
(* I/O errors in POST /convert.                                            *)
(***************************************************************************)
\* file.seek / file.tell raise in check_file_size (line 86, outside the try).
ConvertCheckSizeError(w) ==
  /\ pc[w] = "c_size"
  /\ UNCHANGED call
  /\ faults < MaxFaults
  /\ faults' = faults + 1
  /\ Escape(w, 86)
  /\ UNCHANGED <<fsvars, reqvars, idx, output_size, batchvars>>

\* file.save raises (line 101): nothing, or a truncated file, is on disk.
ConvertSaveError(w) ==
  /\ pc[w] = "c_save"
  /\ UNCHANGED call
  /\ faults < MaxFaults
  /\ faults' = faults + 1
  /\ \E f \in {uploads[input_path(w)], Truncated(w)} :
       uploads' = [uploads EXCEPT ![input_path(w)] = f]
  /\ Goto(w, "c_exc_exists")
  /\ UNCHANGED <<converted, reqvars, idx, output_size, batchvars>>

\* img.save raises inside convert_tif_to_jpg, which returns False (lines
\* 48-53): the output is as before, or partly written.
ConvertRunError(w) ==
  /\ pc[w] = "c_convert"
  /\ UNCHANGED call
  /\ faults < MaxFaults
  /\ ConvertOk(uploads[input_path(w)])
  /\ faults' = faults + 1
  /\ \E f \in {converted[output_path(w)], PartialJpeg(uploads[input_path(w)])} :
       converted' = [converted EXCEPT ![output_path(w)] = f]
  /\ Goto(w, "c_fail_exists")
  /\ UNCHANGED <<uploads, reqvars, idx, output_size, batchvars>>

\* os.remove, os.path.getsize or send_file raise inside the try (lines 106,
\* 110, 112, 119, 123): the call did nothing.
ConvertIOError(w) ==
  /\ pc[w] \in {"c_rm_in", "c_getsize", "c_rm_out", "c_send", "c_fail_rm"}
  /\ UNCHANGED call
  /\ faults < MaxFaults
  /\ faults' = faults + 1
  /\ Goto(w, "c_exc_exists")
  /\ UNCHANGED <<fsvars, reqvars, idx, output_size, batchvars>>

\* os.remove raises inside the except block (line 130).
ConvertExcRemoveError(w) ==
  /\ pc[w] = "c_exc_rm"
  /\ UNCHANGED call
  /\ faults < MaxFaults
  /\ faults' = faults + 1
  /\ Escape(w, 130)
  /\ UNCHANGED <<fsvars, reqvars, idx, output_size, batchvars>>

ConvertStep(w) ==
  \/ ConvertValidate(w)
  \/ ConvertCheckSize(w)
  \/ ConvertSave(w)
  \/ ConvertRun(w)
  \/ ConvertRemoveInput(w)
  \/ ConvertGetSize(w)
  \/ ConvertRemoveOutput(w)
  \/ ConvertSend(w)
  \/ ConvertFailExists(w)
  \/ ConvertFailRemove(w)

ConvertExcept(w) ==
  \/ ConvertExcExists(w)
  \/ ConvertExcRemove(w)

ConvertError(w) ==
  \/ ConvertCheckSizeError(w)
  \/ ConvertSaveError(w)
  \/ ConvertRunError(w)
  \/ ConvertIOError(w)
  \/ ConvertExcRemoveError(w)

(***************************************************************************)
(* POST /batch-convert (batch_convert_images).  A record of the response   *)
(* carries, besides the fields of the JSON, the position in files[] of the *)
(* file it is about (file_index), which the JSON does not show.            *)
(***************************************************************************)
Failure(w, filename, reason) ==
  [filename |-> filename, reason |-> reason, file_index |-> idx[w]]

Success(w) ==
  [filename |-> File(w).filename, output_path |-> output_path(w),
   output_size_mb |-> Round2(converted[output_path(w)].size), file_index |-> idx[w]]

\* A variant of AppendFailure that puts the new record in front.
AppendFailure_Prepend(w, filename, reason) ==
  /\ fail' = [fail EXCEPT ![w] = <<Failure(w, filename, reason)>> \o @]
  /\ UNCHANGED succ

AppendFailure(w, filename, reason) ==
  /\ fail' = [fail EXCEPT ![w] = Append(@, Failure(w, filename, reason))]
  /\ UNCHANGED succ

\* The for loop takes the next file, or ends (line 157).
NextFile(w) ==
  /\ idx' = [idx EXCEPT ![w] = IF @ < Len(req[w].files) THEN @ + 1 ELSE @]
  /\ Goto(w, IF idx[w] < Len(req[w].files) THEN "b_file" ELSE "b_return")

ReceiveBatch(w, limit) ==
  /\ pc[w] = "idle"
  /\ UNCHANGED call
  /\ nreq < limit
  /\ \E fl \in BatchUploads :
       req' = [req EXCEPT ![w] = [kind |-> "batch", files |-> fl]]
  /\ nreq' = nreq + 1
  /\ uid' = [uid EXCEPT ![w] = nreq + 1]
  /\ idx' = [idx EXCEPT ![w] = 0]
  /\ output_size' = [output_size EXCEPT ![w] = 0]
  /\ succ' = [succ EXCEPT ![w] = <<>>]
  /\ fail' = [fail EXCEPT ![w] = <<>>]
  /\ response' = [response EXCEPT ![w] = NoResponse]
  /\ pc' = [pc EXCEPT ![w] = "b_validate"]
  /\ UNCHANGED <<fsvars, faults>>

\* Lines 136-155.  request.files holds the key 'files[]' exactly when the
\* list is not empty, so line 136 answers for the empty list.
BatchValidate(w) ==
  /\ pc[w] = "b_validate"
  /\ UNCHANGED call
  /\ IF req[w].files = <<>>
     THEN /\ Return(w, [status |-> 400, error |-> Error("No files provided", -1)])
          /\ UNCHANGED idx
     ELSE IF TooManyFiles(Len(req[w].files))
     THEN /\ Return(w, [status |-> 400,
                        error |-> Error("Maximum 150 files allowed per batch", -1)])
          /\ UNCHANGED idx
     ELSE /\ idx' = [idx EXCEPT ![w] = 1]
          /\ Goto(w, "b_file")
  /\ UNCHANGED <<fsvars, reqvars, output_size, batchvars, faults>>

\* Lines 158-170.
BatchCheckName(w) ==
  /\ pc[w] = "b_file"
  /\ UNCHANGED call
  /\ IF File(w).filename = <<>>
     THEN /\ AppendFailure(w, <<"U", "n", "n", "a", "m", "e", "d">>,
                           Error("File has no name", -1))
          /\ NextFile(w)
     ELSE IF ~allowed_file(File(w).filename)
     THEN /\ AppendFailure(w, File(w).filename, Error("Invalid file type", -1))
          /\ NextFile(w)
     ELSE /\ Goto(w, "b_size")
          /\ UNCHANGED <<idx, batchvars>>
  /\ UNCHANGED <<fsvars, reqvars, output_size, faults>>

\* Lines 172-177.
BatchCheckSize(w) ==
  /\ pc[w] = "b_size"
  /\ UNCHANGED call
  /\ IF ~check_file_size(File(w))
     THEN /\ AppendFailure(w, File(w).filename,
                           Error("File size exceeds limit",
                                 (MAX_INPUT_FILE_SIZE \div MiB) * 10))
          /\ NextFile(w)
     ELSE /\ Goto(w, "b_save")
          /\ UNCHANGED <<idx, batchvars>>
  /\ UNCHANGED <<fsvars, reqvars, output_size, faults>>

\* Lines 180-186.
BatchSave(w) ==
  /\ pc[w] = "b_save"
  /\ UNCHANGED call
  /\ uploads' = [uploads EXCEPT ![input_path(w)] = Staged(w)]
  /\ Goto(w, "b_convert")
  /\ UNCHANGED <<converted, reqvars, idx, output_size, batchvars, faults>>

\* Line 189, and lines 205-209 when the converter returns False.
BatchRun(w) ==
  /\ pc[w] = "b_convert"
  /\ UNCHANGED call
  /\ IF ConvertOk(uploads[input_path(w)])
     THEN /\ converted' = [converted EXCEPT ![output_path(w)] = Jpeg(uploads[input_path(w)])]
          /\ Goto(w, "b_getsize")
          /\ UNCHANGED batchvars
     ELSE /\ UNCHANGED converted
          /\ AppendFailure(w, File(w).filename, Error("Conversion failed", -1))
          /\ Goto(w, "b_cleanup_exists")
  /\ UNCHANGED <<uploads, reqvars, idx, output_size, faults>>

\* Lines 191-197.
BatchGetSize(w) ==
  /\ pc[w] = "b_getsize"
  /\ UNCHANGED call
  /\ IF converted[output_path(w)].exists
     THEN /\ output_size' = [output_size EXCEPT ![w] = converted[output_path(w)].size]
          /\ IF ~OutputTooLarge(converted[output_path(w)].size)
             THEN /\ succ' = [succ EXCEPT ![w] = Append(@, Success(w))]
                  /\ UNCHANGED fail
                  /\ Goto(w, "b_cleanup_exists")
             ELSE /\ UNCHANGED batchvars
                  /\ Goto(w, "b_rm_out")
     ELSE /\ UNCHANGED <<output_size, batchvars>>
          /\ Goto(w, "b_except")
  /\ UNCHANGED <<fsvars, reqvars, idx, faults>>

\* Lines 199-203.
BatchRemoveOutput(w) ==
  /\ pc[w] = "b_rm_out"
  /\ UNCHANGED call
  /\ IF converted[output_path(w)].exists
     THEN /\ converted' = [converted EXCEPT ![output_path(w)] = NoFile]
          /\ AppendFailure(w, File(w).filename,
                           Error("Output file size exceeds limit", Fmt1(output_size[w])))
          /\ Goto(w, "b_cleanup_exists")
     ELSE /\ UNCHANGED <<converted, batchvars>>
          /\ Goto(w, "b_except")
  /\ UNCHANGED <<uploads, reqvars, idx, output_size, faults>>

\* Line 212.
BatchCleanupExists(w) ==
  /\ pc[w] = "b_cleanup_exists"
  /\ UNCHANGED call
  /\ IF uploads[input_path(w)].exists
     THEN Goto(w, "b_cleanup_rm") /\ UNCHANGED idx
     ELSE NextFile(w)
  /\ UNCHANGED <<fsvars, reqvars, output_size, batchvars, faults>>

\* Line 213.
BatchCleanupRemove(w) ==
  /\ pc[w] = "b_cleanup_rm"
  /\ UNCHANGED call
  /\ IF uploads[input_path(w)].exists
     THEN /\ uploads' = [uploads EXCEPT ![input_path(w)] = NoFile]
          /\ NextFile(w)
     ELSE /\ UNCHANGED <<uploads, idx>>
          /\ Goto(w, "b_except")
  /\ UNCHANGED <<converted, reqvars, output_size, batchvars, faults>>

\* Lines 215-221.
BatchExcept(w) ==
  /\ pc[w] = "b_except"
  /\ UNCHANGED call
  /\ AppendFailure(w, File(w).filename, Error("Processing error", -1))
  /\ IF uploads[input_path(w)].exists
     THEN Goto(w, "b_exc_rm") /\ UNCHANGED idx
     ELSE NextFile(w)
  /\ UNCHANGED <<fsvars, reqvars, output_size, faults>>

\* Line 222: os.remove inside the except block; what it raises leaves the
\* handler.
BatchExcRemove(w) ==
  /\ pc[w] = "b_exc_rm"
  /\ UNCHANGED call
  /\ IF uploads[input_path(w)].exists
     THEN /\ uploads' = [uploads EXCEPT ![input_path(w)] = NoFile]
          /\ NextFile(w)
     ELSE /\ UNCHANGED <<uploads, idx>>
          /\ Escape(w, 222)
  /\ UNCHANGED <<converted, reqvars, output_size, batchvars, faults>>

\* Line 225.
BatchReturn(w) ==
  /\ pc[w] = "b_return"
  /\ UNCHANGED call
  /\ Return(w, [status |-> BatchStatus(succ[w]),
                successful_conversions |-> succ[w],
                failed_conversions |-> fail[w]])
  /\ UNCHANGED <<fsvars, reqvars, idx, output_size, batchvars, faults>>

(***************************************************************************)
(* I/O errors in POST /batch-convert.                                      *)
(***************************************************************************)
\* file.seek / file.tell raise in check_file_size (line 172, outside the try).
BatchCheckSizeError(w) ==
  /\ pc[w] = "b_size"
  /\ UNCHANGED call
  /\ faults < MaxFaults
  /\ faults' = faults + 1
  /\ Escape(w, 172)
  /\ UNCHANGED <<fsvars, reqvars, idx, output_size, batchvars>>

\* file.save raises (line 186).
BatchSaveError(w) ==
  /\ pc[w] = "b_save"
  /\ UNCHANGED call
  /\ faults < MaxFaults
  /\ faults' = faults + 1
  /\ \E f \in {uploads[input_path(w)], Truncated(w)} :
       uploads' = [uploads EXCEPT ![input_path(w)] = f]
  /\ Goto(w, "b_except")
  /\ UNCHANGED <<converted, reqvars, idx, output_size, batchvars>>

\* img.save raises inside convert_tif_to_jpg, which returns False.
BatchRunError(w) ==
  /\ pc[w] = "b_convert"
  /\ UNCHANGED call
  /\ faults < MaxFaults
  /\ ConvertOk(uploads[input_path(w)])
  /\ faults' = faults + 1
  /\ \E f \in {converted[output_path(w)], PartialJpeg(uploads[input_path(w)])} :
       converted' = [converted EXCEPT ![output_path(w)] = f]
  /\ AppendFailure(w, File(w).filename, Error("Conversion failed", -1))
  /\ Goto(w, "b_cleanup_exists")
  /\ UNCHANGED <<uploads, reqvars, idx, output_size>>

\* os.path.getsize or os.remove raise inside the try (lines 191, 199, 213).
BatchIOError(w) ==
  /\ pc[w] \in {"b_getsize", "b_rm_out", "b_cleanup_rm"}
  /\ UNCHANGED call
  /\ faults < MaxFaults
  /\ faults' = faults + 1
  /\ Goto(w, "b_except")
  /\ UNCHANGED <<fsvars, reqvars, idx, output_size, batchvars>>

\* os.remove raises inside the except block (line 222).
BatchExcRemoveError(w) ==
  /\ pc[w] = "b_exc_rm"
  /\ UNCHANGED call
  /\ faults < MaxFaults
  /\ faults' = faults + 1
  /\ Escape(w, 222)
  /\ UNCHANGED <<fsvars, reqvars, idx, output_size, batchvars>>

BatchStep(w) ==
  \/ BatchValidate(w)
  \/ BatchCheckName(w)
  \/ BatchCheckSize(w)
  \/ BatchSave(w)
  \/ BatchRun(w)
  \/ BatchGetSize(w)
  \/ BatchRemoveOutput(w)
  \/ BatchCleanupExists(w)
  \/ BatchCleanupRemove(w)
  \/ BatchReturn(w)

BatchExceptStep(w) ==
  \/ BatchExcept(w)
  \/ BatchExcRemove(w)

BatchError(w) ==
  \/ BatchCheckSizeError(w)
  \/ BatchSaveError(w)
  \/ BatchRunError(w)
  \/ BatchIOError(w)
  \/ BatchExcRemoveError(w)

(***************************************************************************)
(* convert_tif_to_jpg seen from the inside: the pixel dimensions of the    *)
(* image between Image.open and img.save.                                  *)
(***************************************************************************)

\* The default of the parameter max_size (line 40).
max_size == <<2800, 2800>>

\* The widths and heights of the images that are opened.
Sides ==
  { s \in { m * 2800 + d : m \in 0..MaxMult, d \in (0 - MaxDelta)..MaxDelta } : s >= 1 }

Max2(a, b) == IF a >= b THEN a ELSE b
Abs(n) == IF n < 0 THEN 0 - n ELSE n
\* math.floor and math.ceil of n / d, for n >= 0 and d > 0.
Floor(n, d) == n \div d
Ceil(n, d) == (n + d - 1) \div d

\* A variant of round_aspect that returns the nearer candidate as it is.
round_aspect_Unclamped(lo, hi, lo_key_le) == IF lo_key_le THEN lo ELSE hi

\* Image.thumbnail's round_aspect: of floor and ceil of the scaled side the
\* one whose key is smaller, the floor on a tie, and at least 1.
round_aspect(lo, hi, lo_key_le) == Max2(IF lo_key_le THEN lo ELSE hi, 1)

\* Image.thumbnail's preserve_aspect_ratio, with aspect = w / h kept exact:
\* the size the image has after img.thumbnail(max, LANCZOS) (line 46).
thumbnail(size, max) ==
  LET w == size[1]
      h == size[2]
      x == max[1]
      y == max[2]
  IN  IF x >= w /\ y >= h THEN size
      ELSE IF x * h >= w * y
      THEN \* x / y >= aspect: x = round_aspect(y * aspect, |aspect - n / y|)
           LET lo == Floor(y * w, h)
               hi == Ceil(y * w, h)
           IN  <<round_aspect(lo, hi, Abs(w * y - lo * h) <= Abs(w * y - hi * h)), y>>
      ELSE \* y = round_aspect(x / aspect, 0 if n == 0 else |aspect - x / n|)
           LET lo == Floor(x * h, w)
               hi == Ceil(x * h, w)
           IN  <<x, round_aspect(lo, hi,
                                 lo = 0 \/ Abs(w * lo - x * h) * hi <= Abs(w * hi - x * h) * lo)>>

\* Line 43: Image.open(input_path) of a decodable image.
OpenImage ==
  /\ call = NoCall
  /\ \E w \in Sides, h \in Sides :
       call' = [fn |-> "convert_tif_to_jpg", at |-> "opened",
                opened |-> <<w, h>>, size |-> <<w, h>>, saved |-> <<0, 0>>]
  /\ UNCHANGED handlervars

\* Lines 45-46.
ResizeImage ==
  /\ call.fn = "convert_tif_to_jpg"
  /\ call.at = "opened"
  /\ call' = [call EXCEPT !.at = "resized",
                          !.size = IF Max2(call.size[1], call.size[2])
                                      > Max2(max_size[1], max_size[2])
                                   THEN thumbnail(call.size, max_size)
                                   ELSE call.size]
  /\ UNCHANGED handlervars

\* Line 47: img.save writes the image at the size it has.
SaveImage ==
  /\ call.fn = "convert_tif_to_jpg"
  /\ call.at = "resized"
  /\ call' = [call EXCEPT !.at = "saved", !.saved = call.size]
  /\ UNCHANGED handlervars

\* Line 50: return True.
ConvertReturn ==
  /\ call.fn = "convert_tif_to_jpg"
  /\ call.at = "saved"
  /\ call' = NoCall
  /\ UNCHANGED handlervars

NextImage == OpenImage \/ ResizeImage \/ SaveImage \/ ConvertReturn

SpecImage == Init /\ [][NextImage]_vars


(***************************************************************************)
(* allowed_file called on its own, on every short filename.                *)
(***************************************************************************)

\* The characters filenames are made of.
NameChars == {"t", "I", "f", "F", ".", "a"}

\* The filenames of at most n characters.
RECURSIVE Names(_)
Names(n) ==
  IF n = 0 THEN { <<>> }
  ELSE LET shorter == Names(n - 1)
       IN  shorter \cup { Append(l, c) : l \in {x \in shorter : Len(x) = n - 1}, c \in NameChars }

\* Line 29: allowed_file is entered with a filename.
CallAllowedFile ==
  /\ call = NoCall
  /\ \E f \in Names(MaxNameLen) :
       call' = [fn |-> "allowed_file", at |-> "called", filename |-> f, result |-> FALSE]
  /\ UNCHANGED handlervars

\* Lines 30-31: the value of the return expression.
RunAllowedFile ==
  /\ call.fn = "allowed_file"
  /\ call.at = "called"
  /\ call' = [call EXCEPT !.at = "returned", !.result = allowed_file(call.filename)]
  /\ UNCHANGED handlervars

\* The caller goes on.
LeaveAllowedFile ==
  /\ call.fn = "allowed_file"
  /\ call.at = "returned"
  /\ call' = NoCall
  /\ UNCHANGED handlervars

NextAllowedFile == CallAllowedFile \/ RunAllowedFile \/ LeaveAllowedFile

SpecAllowedFile == Init /\ [][NextAllowedFile]_vars


(***************************************************************************)
(* check_file_size seen from the inside: the uploaded stream, its length   *)
(* and its read position.                                                  *)
(***************************************************************************)

\* The lengths of the streams that are measured.
StreamLengths ==
  (0..MaxStreamLen)
    \cup { MAX_INPUT_FILE_SIZE + d : d \in (0 - MaxStreamLen)..MaxStreamLen }

\* Line 33: check_file_size is entered with a stream, which the framework
\* hands over at its start or which an earlier reader has moved.
CallCheckFileSize ==
  /\ call = NoCall
  /\ \E n \in StreamLengths :
       \E p \in {q \in {0, 1, n} : q <= n} :
         call' = [fn |-> "check_file_size", at |-> "seek_end", length |-> n, pos |-> p,
                  size |-> 0, results |-> <<>>, read |-> <<0, 0>>]
  /\ UNCHANGED handlervars

\* Line 35: file.seek(0, os.SEEK_END).
StreamSeekEnd ==
  /\ call.fn = "check_file_size"
  /\ call.at = "seek_end"
  /\ call' = [call EXCEPT !.at = "tell", !.pos = call.length]
  /\ UNCHANGED handlervars

\* Line 36: size = file.tell().
StreamTell ==
  /\ call.fn = "check_file_size"
  /\ call.at = "tell"
  /\ call' = [call EXCEPT !.at = "seek_start", !.size = call.pos]
  /\ UNCHANGED handlervars

\* A variant of StreamSeekStart that leaves the stream where it is.
StreamSeekStart_Omitted ==
  /\ call.fn = "check_file_size"
  /\ call.at = "seek_start"
  /\ call' = [call EXCEPT !.at = "return"]
  /\ UNCHANGED handlervars

\* Line 37: file.seek(0).
StreamSeekStart ==
  /\ call.fn = "check_file_size"
  /\ call.at = "seek_start"
  /\ call' = [call EXCEPT !.at = "return", !.pos = 0]
  /\ UNCHANGED handlervars

\* Line 38: return size <= MAX_INPUT_FILE_SIZE.
CheckFileSizeReturn ==
  /\ call.fn = "check_file_size"
  /\ call.at = "return"
  /\ call' = [call EXCEPT !.at = "returned",
                          !.results = Append(@, check_file_size([size |-> call.size]))]
  /\ UNCHANGED handlervars

\* The stream is measured a second time.
CheckFileSizeAgain ==
  /\ call.fn = "check_file_size"
  /\ call.at = "returned"
  /\ Len(call.results) < 2
  /\ call' = [call EXCEPT !.at = "seek_end"]
  /\ UNCHANGED handlervars

\* Lines 101 and 186: file.save reads the stream from its position to its
\* end; read is the range of bytes it gets.
StreamRead ==
  /\ call.fn = "check_file_size"
  /\ call.at = "returned"
  /\ call' = [call EXCEPT !.at = "read", !.read = <<call.pos, call.length>>,
                          !.pos = call.length]
  /\ UNCHANGED handlervars

\* The request goes on.
StreamDone ==
  /\ call.fn = "check_file_size"
  /\ call.at = "read"
  /\ call' = NoCall
  /\ UNCHANGED handlervars

NextStream ==
  \/ CallCheckFileSize
  \/ StreamSeekEnd
  \/ StreamTell
  \/ StreamSeekStart
  \/ CheckFileSizeReturn
  \/ CheckFileSizeAgain
  \/ StreamRead
  \/ StreamDone

SpecStream == Init /\ [][NextStream]_vars


(***************************************************************************)
(* Specifications.                                                         *)
(***************************************************************************)
\* The server handles one request after the other; every I/O call does its
\* work.
Next ==
  \/ ReceiveConvert(1, MaxReqs)
  \/ ReceiveBatch(1, MaxReqs)
  \/ ConvertStep(1)
  \/ BatchStep(1)

Spec == Init /\ [][Next]_vars

\* One request, whose I/O calls may raise.
NextFaults ==
  \/ ReceiveConvert(1, 1)
  \/ ReceiveBatch(1, 1)
  \/ ConvertStep(1)
  \/ BatchStep(1)
  \/ ConvertExcept(1)
  \/ BatchExceptStep(1)
  \/ ConvertError(1)
  \/ BatchError(1)

SpecFaults == Init /\ [][NextFaults]_vars

\* POST /convert requests handled by two threads.
NextConcurrent ==
  \E w \in Workers : ReceiveConvert(w, MaxReqs) \/ ConvertStep(w) \/ ConvertExcept(w)

SpecConcurrent == Init /\ [][NextConcurrent]_vars
(***************************************************************************)
(* Properties.                                                             *)
(***************************************************************************)
\* The handler of worker w has ended: it returned, or an exception left it.
Ended(w) == pc[w] = "idle" /\ response[w] # NoResponse

\* The response is the dict of a processed batch.
IsBatchResult(r) == "successful_conversions" \in DOMAIN r

\* An exception left the handler.
Raised(r) == r.status = -1

\* The uploads of request n still in UPLOAD_FOLDER.
StagedBy(n) == { p \in UploadPaths : uploads[p].exists /\ uploads[p].src[1] = n }

\* The records of a sequence that are about file i.
RecordsOf(s, i) == { k \in 1..Len(s) : s[k].file_index = i }

\* C1: when a run of POST /convert has ended, on whatever path, the input
\* file it staged in uploads/ does not exist.
C1_InputGoneAfterConvert ==
  \A w \in Workers :
    (req[w].kind = "convert" /\ Ended(w)) => StagedBy(uid[w]) = {}

\* C2: when POST /batch-convert has ended, no input file it staged in
\* uploads/ exists, whatever the outcome of each file.
C2_InputsGoneAfterBatch ==
  \A w \in Workers :
    (req[w].kind = "batch" /\ Ended(w)) => StagedBy(uid[w]) = {}

\* C3: a processed batch of n files answers with exactly one record per
\* file, in exactly one of the two lists, so the lists hold n records.
C3_OneRecordPerFile ==
  \A w \in Workers :
    (req[w].kind = "batch" /\ Ended(w) /\ IsBatchResult(response[w])) =>
      LET s == response[w].successful_conversions
          f == response[w].failed_conversions
          n == Len(req[w].files)
      IN  /\ \A i \in 1..n : Cardinality(RecordsOf(s, i)) + Cardinality(RecordsOf(f, i)) = 1
          /\ Len(s) + Len(f) = n

\* C4: in a batch that passed the batch-level checks no exception leaves
\* the handler, and the batch is not ended early: at the end every file has
\* a record.
C4_BatchNeverAborts ==
  \A w \in Workers :
    (req[w].kind = "batch" /\ Ended(w)) =>
      /\ ~Raised(response[w])
      /\ IsBatchResult(response[w]) =>
           \A i \in 1..Len(req[w].files) :
             RecordsOf(response[w].successful_conversions, i)
               \cup RecordsOf(response[w].failed_conversions, i) # {}

\* C5: in POST /convert no exception raised after validation (after line
\* 90), the except block's own cleanup included, leaves the handler.
C5_ConvertNeverRaises ==
  \A w \in Workers :
    (req[w].kind = "convert" /\ Ended(w) /\ Raised(response[w])) =>
      response[w].line <= 90

\* C6: concurrent POST /convert requests work on their own artifacts only:
\* the input a request converts is the one it saved, the output it measures
\* and sends is the one it made, and a 200 response carries the JPEG of the
\* request's own upload.
C6_RequestsIsolated ==
  \A w \in Workers :
    /\ pc[w] \in {"c_convert", "c_rm_in"} =>
         uploads[input_path(w)] = Staged(w)
    /\ pc[w] \in {"c_getsize", "c_rm_out", "c_send"} =>
         converted[output_path(w)] = Jpeg(Staged(w))
    /\ (Ended(w) /\ response[w].status = 200) =>
         response[w].body.src = <<uid[w], 1>>

\* The candidate passes the checks of lines 76-90 (158-177) and the decoder
\* accepts it.
Converts(f) ==
  /\ f.filename # <<>>
  /\ allowed_file(f.filename)
  /\ f.size <= MAX_INPUT_FILE_SIZE
  /\ f.decodable

ExceedsText(f) == Error("Output file size exceeds limit", Fmt1(f.jpeg_size))

\* C7: when the conversion of a file succeeds, its JPEG is accepted if it has
\* at most 10 MiB; if it has more, the output file is deleted before the
\* outcome is reported and the outcome is a failure whose message shows the
\* size of the JPEG: the 400 response of POST /convert, and the failure
\* record of POST /batch-convert.
C7_OutputSizeLimit ==
  \A w \in Workers :
    /\ (req[w].kind = "convert" /\ Ended(w) /\ req[w].files # <<>>
          /\ Converts(req[w].files[1])) =>
         LET f == req[w].files[1]
         IN  IF f.jpeg_size > 10 * MiB
             THEN /\ response[w] =
                       [status |-> 400,
                        error |-> Error("Output file size exceeds limit of", Fmt1(f.jpeg_size))]
                  /\ ~converted[OutputPath(f.filename)].exists
             ELSE /\ response[w].status = 200
                  /\ response[w].body.size = f.jpeg_size
    /\ (req[w].kind = "batch" /\ pc[w] \in {"b_cleanup_exists", "b_cleanup_rm"}
          /\ Converts(File(w))) =>
         LET f == File(w)
             i == idx[w]
         IN  IF f.jpeg_size > 10 * MiB
             THEN /\ \E k \in RecordsOf(fail[w], i) :
                       fail[w][k].reason = ExceedsText(f)
                  /\ RecordsOf(succ[w], i) = {}
                  /\ ~converted[output_path(w)].exists
             ELSE /\ RecordsOf(succ[w], i) # {}
                  /\ RecordsOf(fail[w], i) = {}
                  /\ converted[output_path(w)].exists

\* A batch whose first file made a JPEG of exactly 10 MiB, kept, and whose
\* second file made one of 10 MiB + 1 byte, just deleted and recorded.
C7_Witness ==
  /\ req[1].kind = "batch"
  /\ req[1].files = <<TifExact, TiffOver>>
  /\ idx[1] = 2
  /\ pc[1] = "b_cleanup_exists"
  /\ Len(succ[1]) = 1
  /\ Len(fail[1]) = 1
  /\ converted[OutputPath(TifExact.filename)].exists
  /\ ~converted[OutputPath(TiffOver.filename)].exists

\* C8: when POST /batch-convert returns, every record of
\* successful_conversions names an output_path at which a file exists, and
\* that file is the JPEG made from the record's own input file.
C8_OutputsAddressable ==
  \A w \in Workers :
    (req[w].kind = "batch" /\ Ended(w) /\ IsBatchResult(response[w])) =>
      \A k \in 1..Len(response[w].successful_conversions) :
        LET r == response[w].successful_conversions[k]
        IN  /\ converted[r.output_path].exists
            /\ converted[r.output_path].src = <<uid[w], r.file_index>>

\* A batch request with no file, or with more than 150 files.
RejectedBatch(w) ==
  /\ req[w].kind = "batch"
  /\ Len(req[w].files) = 0 \/ Len(req[w].files) > 150

C9_State ==
  \A w \in Workers :
    /\ RejectedBatch(w) =>
         /\ pc[w] \in {"b_validate", "idle"}
         /\ idx[w] = 0
         /\ succ[w] = <<>> /\ fail[w] = <<>>
         /\ Ended(w) =>
              response[w] =
                [status |-> 400,
                 error |-> Error(IF req[w].files = <<>> THEN "No files provided"
                                 ELSE "Maximum 150 files allowed per batch", -1)]
    /\ (req[w].kind = "batch" /\ Len(req[w].files) = 150) =>
         /\ pc[w] = "idle" => Ended(w)
         /\ Ended(w) =>
              /\ IsBatchResult(response[w])
              /\ Len(response[w].successful_conversions)
                   + Len(response[w].failed_conversions) = 150

\* While a rejected batch is being handled the two folders do not change.
C9_Frame ==
  \A w \in Workers :
    (RejectedBatch(w) /\ req'[w] = req[w]) => UNCHANGED fsvars

\* C9: a batch with no file or with more than 150 files is answered with
\* status 400 and one error reason, before any file is examined: no file is
\* saved, converted or deleted, and no per-file record is made.  A batch of
\* exactly 150 files is processed.
C9_BatchLimits == []C9_State /\ [][C9_Frame]_vars

\* A batch of 151 files was rejected.
C9_Witness ==
  /\ RejectedBatch(1)
  /\ Len(req[1].files) = 151
  /\ Ended(1)
  /\ response[1].status = 400

\* The JPEG of the candidate is made and kept.
Good(f) == Converts(f) /\ f.jpeg_size <= 10 * MiB

\* C10: a processed batch (1 to 150 files) is answered with status 200
\* exactly when successful_conversions is not empty, however many files
\* failed; when every file fails the status is 400, failed_conversions holds
\* one record per input file and successful_conversions is empty.
C10_BatchStatus ==
  \A w \in Workers :
    (req[w].kind = "batch" /\ Ended(w) /\ Len(req[w].files) \in 1..150) =>
      LET n == Len(req[w].files)
          good == { i \in 1..n : Good(req[w].files[i]) }
      IN  /\ IsBatchResult(response[w])
          /\ response[w].status \in {200, 400}
          /\ response[w].status = 200 <=> response[w].successful_conversions # <<>>
          /\ good # {} => response[w].status = 200
          /\ good = {} =>
               /\ response[w].status = 400
               /\ Len(response[w].failed_conversions) = n
               /\ response[w].successful_conversions = <<>>

\* A batch of one convertible TIFF and one file that is no TIFF was answered
\* with 200, one success and one failure.
C10_Witness ==
  /\ req[1].kind = "batch"
  /\ req[1].files = <<TifSmall, PngFile>>
  /\ Ended(1)
  /\ response[1].status = 200
  /\ Len(response[1].successful_conversions) = 1
  /\ Len(response[1].failed_conversions) = 1

\* Every file of a batch failed.
C10_WitnessAllFail ==
  /\ req[1].kind = "batch"
  /\ req[1].files = <<TifCorrupt, TiffOver>>
  /\ Ended(1)
  /\ response[1].status = 400

\* The candidate passes the checks of lines 76-90.
PassesValidation(f) ==
  /\ f.filename # <<>>
  /\ allowed_file(f.filename)
  /\ f.size <= MAX_INPUT_FILE_SIZE

\* POST /convert ended for a file that passed validation and that the
\* converter refused.
ConversionFailed(w) ==
  /\ req[w].kind = "convert"
  /\ Ended(w)
  /\ req[w].files # <<>>
  /\ PassesValidation(req[w].files[1])
  /\ ~req[w].files[1].decodable

\* C11 as stated: when the converter reports failure the input artifact is
\* deleted and the response has status 400 with the conversion failure as
\* its reason; 500 is kept for unexpected errors.
C11_FailureIs400 ==
  \A w \in Workers :
    /\ ConversionFailed(w) =>
         /\ StagedBy(uid[w]) = {}
         /\ response[w].status = 400
         /\ response[w].error.msg = "Conversion failed"
    /\ (req[w].kind = "convert" /\ Ended(w) /\ response[w].status = 500) =>
         response[w].error.msg = "Internal server error"

\* C11, amended: when the converter reports failure the input artifact is
\* deleted and the response is {error: 'Conversion failed'} with status
\* 500; without an unexpected error this is the only use of status 500.
C11_FailureIs500 ==
  \A w \in Workers :
    /\ ConversionFailed(w) =>
         /\ StagedBy(uid[w]) = {}
         /\ ~uploads[InputPath(req[w].files[1].filename)].exists
         /\ response[w] = [status |-> 500, error |-> Error("Conversion failed", -1)]
    /\ (req[w].kind = "convert" /\ Ended(w) /\ response[w].status = 500) =>
         ConversionFailed(w)

\* POST /convert answered for an upload the decoder refuses.
C11_Witness ==
  /\ req[1].kind = "convert"
  /\ req[1].files = <<TifCorrupt>>
  /\ Ended(1)
  /\ response[1].status = 500

\* The reason of the first check of POST /convert that the upload fails, in
\* the order missing file, empty filename, extension, input size; "" when it
\* passes all four.
FirstFailingCheck(fl) ==
  IF fl = <<>> THEN "No file provided"
  ELSE IF fl[1].filename = <<>> THEN "No file selected"
  ELSE IF ~(/\ HasDot(fl[1].filename)
            /\ lower(Suffix(fl[1].filename)) \in ALLOWED_EXTENSIONS)
       THEN "Invalid file type. Only TIF/TIFF files are allowed"
  ELSE IF fl[1].size > 1024 * MiB THEN "File size exceeds maximum limit of"
  ELSE ""

\* A POST /convert that one of the four checks refuses.
RejectedConvert(w) ==
  /\ req[w].kind = "convert"
  /\ FirstFailingCheck(req[w].files) # ""

C12_State ==
  \A w \in Workers :
    /\ RejectedConvert(w) =>
         /\ pc[w] \in {"c_validate", "c_size", "idle"}
         /\ StagedBy(uid[w]) = {}
         /\ Ended(w) =>
              /\ response[w].status = 400
              /\ response[w].error.msg = FirstFailingCheck(req[w].files)
    /\ (/\ req[w].kind = "convert" /\ Ended(w) /\ ~RejectedConvert(w)
        /\ "error" \in DOMAIN response[w]) =>
         response[w].error.msg \notin
           {"No file provided", "No file selected",
            "Invalid file type. Only TIF/TIFF files are allowed",
            "File size exceeds maximum limit of"}

\* While a rejected POST /convert is being handled the two folders do not
\* change.
C12_Frame ==
  \A w \in Workers :
    (RejectedConvert(w) /\ req'[w] = req[w]) => UNCHANGED fsvars

\* C12: POST /convert checks missing file, empty filename, extension and
\* input size in that order and answers the first failing check with status
\* 400 and that check's reason; a request rejected by one of them creates,
\* overwrites and deletes nothing in the upload and output folders.
C12_ValidationOrder == []C12_State /\ [][C12_Frame]_vars

\* An upload with a wrong extension and an excessive size was rejected for
\* its extension.
C12_Witness ==
  /\ req[1].files = <<PngTooBig>>
  /\ req[1].kind = "convert"
  /\ Ended(1)
  /\ response[1].error.msg = "Invalid file type. Only TIF/TIFF files are allowed"

\* C13: the input-size check never raises: when the length of the uploaded
\* stream cannot be read, the request (or, in a batch, the file) is refused
\* as a validation failure and no exception leaves the handler from the
\* calls of check_file_size at lines 86 and 172.
C13_SizeCheckNeverRaises ==
  \A w \in Workers :
    (Ended(w) /\ Raised(response[w])) => response[w].line \notin {86, 172}

\* C14: a decodable image of width w and height h (both at least 1) whose
\* longer side is at most 2800 is written with exactly the dimensions
\* (w, h); one whose longer side exceeds 2800 is written with that side
\* exactly 2800 and the other side the aspect-preserving value
\* 2800 * shorter / longer rounded down or up, and at least 1.
C14_OutputDimensions ==
  (call.fn = "convert_tif_to_jpg" /\ call.at = "saved") =>
    LET w == call.opened[1]
        h == call.opened[2]
        ow == call.saved[1]
        oh == call.saved[2]
    IN  /\ (w <= 2800 /\ h <= 2800) => (ow = w /\ oh = h)
        /\ (w > 2800 /\ w >= h) =>
             /\ ow = 2800
             /\ oh >= 1
             /\ oh * w > 2800 * h - w
             /\ oh * w < 2800 * h + w
        /\ (h > 2800 /\ h >= w) =>
             /\ oh = 2800
             /\ ow >= 1
             /\ ow * h > 2800 * w - h
             /\ ow * h < 2800 * w + h

\* A one-pixel-wide image far longer than the limit was written one pixel
\* wide.
C14_Witness ==
  /\ call.fn = "convert_tif_to_jpg"
  /\ call.at = "saved"
  /\ call.opened = <<1, 2802>>
  /\ call.saved = <<1, 2800>>

\* The characters after position i of f spell 'tif' or 'tiff' in any case.
SpellsTif(f, i) ==
  /\ Len(f) - i \in {3, 4}
  /\ f[i + 1] \in {"t", "T"}
  /\ f[i + 2] \in {"i", "I"}
  /\ \A j \in (i + 3)..Len(f) : f[j] \in {"f", "F"}

\* C15: allowed_file(f) is true exactly when f contains a '.' and the text
\* after the last '.', compared without regard to case, is 'tif' or 'tiff';
\* a name without '.' and a name ending in '.' are rejected.
C15_AllowedFile ==
  (call.fn = "allowed_file" /\ call.at = "returned") =>
    LET f == call.filename
    IN  /\ call.result <=>
             \E i \in 1..Len(f) :
               /\ f[i] = "."
               /\ \A j \in (i + 1)..Len(f) : f[j] # "."
               /\ SpellsTif(f, i)
        /\ (\A i \in 1..Len(f) : f[i] # ".") => ~call.result
        /\ (f # <<>> /\ f[Len(f)] = ".") => ~call.result

\* A name with two dots and a suffix in mixed case was accepted.
C15_Witness ==
  /\ call.fn = "allowed_file"
  /\ call.at = "returned"
  /\ call.filename = <<".", ".", "t", "I", "F">>
  /\ call.result

\* Worker w executes an os.remove of POST /convert (lines 106, 112, 123,
\* 130) in this step.
RemovesInput(w) == pc[w] \in {"c_rm_in", "c_fail_rm", "c_exc_rm"} /\ pc'[w] # pc[w]
RemovesOutput(w) == pc[w] = "c_rm_out" /\ pc'[w] # pc[w]

C16_Step ==
  \A w \in Workers :
    /\ RemovesInput(w) => uploads[input_path(w)].exists
    /\ RemovesOutput(w) => converted[output_path(w)].exists

\* C16: every delete step is executed on a file that is present, so that no
\* delete fails for want of its file (and none deletes what the same run has
\* deleted before), also when another request with the same sanitized
\* filename is handled at the same time.
C16_DeleteOnlyPresent == [][C16_Step]_vars

\* Worker w is at the measurement of the output it has just made: line 110
\* of POST /convert, line 191 of POST /batch-convert.
MeasuresOutput(w) == pc[w] \in {"c_getsize", "b_getsize"}

InInputOrder(s) ==
  \A k \in 1..(Len(s) - 1) : s[k].file_index <= s[k + 1].file_index

\* s is an initial part of t.
IsPrefix(s, t) == Len(s) <= Len(t) /\ SubSeq(t, 1, Len(s)) = s

C18_State ==
  \A w \in Workers :
    /\ InInputOrder(succ[w])
    /\ InInputOrder(fail[w])
    /\ \A k \in 1..Len(succ[w]) : succ[w][k].file_index <= idx[w]
    /\ \A k \in 1..Len(fail[w]) : fail[w][k].file_index <= idx[w]
    /\ (req[w].kind = "batch" /\ Ended(w) /\ IsBatchResult(response[w])) =>
         /\ response[w].successful_conversions = succ[w]
         /\ response[w].failed_conversions = fail[w]

\* Within one request the two lists only grow at their ends.
C18_Step ==
  \A w \in Workers :
    uid'[w] = uid[w] =>
      /\ IsPrefix(succ[w], succ'[w])
      /\ IsPrefix(fail[w], fail'[w])

\* C18: in a batch the per-file records are appended in the order of the
\* input files, in successful_conversions and in failed_conversions each,
\* and a record once appended is never removed or moved: the lists in the
\* response are the lists as they were built.
C18_RecordsInOrder == []C18_State /\ [][C18_Step]_vars

\* A batch of 150 files ended with 149 failure records and one success
\* record.
C18_Witness ==
  /\ req[1].kind = "batch"
  /\ Ended(1)
  /\ IsBatchResult(response[1])
  /\ Len(response[1].failed_conversions) = 149
  /\ Len(response[1].successful_conversions) = 1

\* C19: check_file_size returns true exactly when the stream is at most
\* 1 GiB long, and when it has returned the read position is at the start
\* of the stream: a read that follows gets the whole content, and a second
\* measurement gives the result of the first.
C19_MeasureKeepsStream ==
  call.fn = "check_file_size" =>
    /\ call.at = "returned" =>
         /\ call.pos = 0
         /\ call.results[Len(call.results)] <=> (call.length <= 1024 * 1024 * 1024)
    /\ \A k \in 1..Len(call.results) : call.results[k] = call.results[1]
    /\ call.at = "read" => call.read = <<0, call.length>>

\* A stream of exactly 1 GiB was measured twice and then read.
C19_Witness ==
  /\ call.fn = "check_file_size"
  /\ call.at = "read"
  /\ call.length = MAX_INPUT_FILE_SIZE
  /\ call.results = <<TRUE, TRUE>>
  /\ call.read = <<0, MAX_INPUT_FILE_SIZE>>
=============================================================================
